---- MODULE Spec2Model ----
(***************************************************************************)
(* Borrows graph of the PCS borrow/reborrow analysis: BorrowsState (the    *)
(* latest map and the graph of conditioned edges), the edge taxonomy, and  *)
(* the operations of borrows_state.rs, as a state machine driven by a      *)
(* visitor that calls one operation per step.                              *)
(***************************************************************************)
EXTENDS Naturals, Sequences, FiniteSets, TLC

VARIABLES
    st,      \* the BorrowsState the visitor is mutating: [latest, graph]
    blk,     \* the basic block `st` belongs to
    other,   \* a second BorrowsState: the state kept at a control-flow split
    oblk,    \* the basic block `other` belongs to
    step,    \* statements visited so far; the current statement index
    last     \* the last operation: its name, arguments, pre-state and result

vars == <<st, blk, other, oblk, step, last>>

(***************************************************************************)
(* Bounds of the model.                                                    *)
(***************************************************************************)
MaxSteps == 4
MaxBlock == 2
MaxEdges == 3

(***************************************************************************)
(* Places.  Three locals, typed  x: &'rx mut i32,                          *)
(* y: &'ry mut &'ry1 mut i32,  z: &'rz mut &'rz1 mut i32;  the only        *)
(* projection element is Deref.                                            *)
(***************************************************************************)
Locals == {"x", "y", "z"}

Place(l, proj) == [local |-> l, projection |-> proj]

\* Number of reference layers of a local's type.
RefDepth(l) == CASE l = "x" -> 1 [] l = "y" -> 2 [] l = "z" -> 2

RECURSIVE Derefs(_)
Derefs(n) == IF n = 0 THEN <<>> ELSE Append(Derefs(n - 1), "Deref")

Places == { Place(l, Derefs(n)) : l \in Locals, n \in 0..2 } \ {Place("x", Derefs(2))}

\* Reference layers left in the type of a place.
RefsLeft(p) == RefDepth(p.local) - Len(p.projection)

is_ref(p) == RefsLeft(p) > 0

is_owned(p) == \A i \in 1..Len(p.projection) : p.projection[i] # "Deref"

is_prefix(p, q) ==
    /\ p.local = q.local
    /\ Len(p.projection) <= Len(q.projection)
    /\ SubSeq(q.projection, 1, Len(p.projection)) = p.projection

place_project_deref(p) == Place(p.local, Append(p.projection, "Deref"))

place_project_deeper(p, elem) == Place(p.local, Append(p.projection, elem))

\* The lifetimes of a local's type, outermost first.
LocalRegions(l) ==
    CASE l = "x" -> <<"rx">>
      [] l = "y" -> <<"ry", "ry1">>
      [] l = "z" -> <<"rz", "rz1">>

RECURSIVE Drop(_, _)
Drop(s, n) == IF n = 0 \/ s = <<>> THEN s ELSE Drop(Tail(s), n - 1)

\* The lifetimes of a place's type, in the order they appear in the type.
place_regions(p) == Drop(LocalRegions(p.local), Len(p.projection))

Range(s) == { s[i] : i \in DOMAIN s }

(***************************************************************************)
(* Snapshot locations, MaybeOldPlace, MaybeRemotePlace.                    *)
(***************************************************************************)
Location(b, s) == [tag |-> "Loc", block |-> b, stmt |-> s]
JoinMarker(b) == [tag |-> "Join", block |-> b]
StartMarker == [tag |-> "Start"]

Current(p) == [tag |-> "Current", place |-> p]
OldPlace(p, at) == [tag |-> "OldPlace", place |-> p, at |-> at]

is_current(mop) == mop.tag = "Current"
is_old(mop) == mop.tag = "OldPlace"

Local(mop) == [tag |-> "Local", p |-> mop]
Remote(l) == [tag |-> "Remote", local |-> l]

as_local_places(mrp) == IF mrp.tag = "Local" THEN {mrp.p} ELSE {}

\* MaybeOldPlace::new(place, location): the snapshot tag is kept.
mop_with_place(mop, p) ==
    IF is_current(mop) THEN Current(p) ELSE OldPlace(p, mop.at)

mop_project_deref(mop) == mop_with_place(mop, place_project_deref(mop.place))

mop_project_deeper(mop, elem) ==
    mop_with_place(mop, place_project_deeper(mop.place, elem))

RegionProjection(mop, r) == [place |-> mop, region |-> r]

region_projections(mop) ==
    { RegionProjection(mop, r) : r \in Range(place_regions(mop.place)) }

(***************************************************************************)
(* Latest: Local -> SnapshotLocation, a partial map.                       *)
(***************************************************************************)
Latest_new == [l \in {} |-> StartMarker]

Latest_get(latest, p) ==
    IF p.local \in DOMAIN latest THEN latest[p.local] ELSE StartMarker

Latest_insert(latest, l, loc) ==
    [k \in (DOMAIN latest) \cup {l} |-> IF k = l THEN loc ELSE latest[k]]

\* Agree where the values match, else the merge block's join marker; a
\* local only one side knows keeps the location that side recorded.
Latest_join(latest, o, block) ==
    [k \in (DOMAIN latest) \cup (DOMAIN o) |->
        IF k \notin DOMAIN latest THEN o[k]
        ELSE IF k \notin DOMAIN o THEN latest[k]
        ELSE IF latest[k] = o[k] THEN latest[k]
        ELSE JoinMarker(block)]

(***************************************************************************)
(* MaybeOldPlace::make_place_old and its lifting to every place an edge    *)
(* stores.                                                                 *)
(***************************************************************************)
\* Faulty variant: a place that is already old is aged again.
mop_make_place_old_reage(mop, place, latest) ==
    IF is_prefix(place, mop.place)
    THEN OldPlace(mop.place, Latest_get(latest, mop.place))
    ELSE mop

\* Faulty variant: a place that is already old becomes current again.
mop_make_place_old_toggle(mop, place, latest) ==
    IF is_prefix(place, mop.place)
    THEN (IF is_current(mop)
          THEN OldPlace(mop.place, Latest_get(latest, mop.place))
          ELSE Current(mop.place))
    ELSE mop

mop_make_place_old(mop, place, latest) ==
    IF is_current(mop) /\ is_prefix(place, mop.place)
    THEN OldPlace(mop.place, Latest_get(latest, mop.place))
    ELSE mop

mrp_make_place_old(mrp, place, latest) ==
    IF mrp.tag = "Local"
    THEN Local(mop_make_place_old(mrp.p, place, latest))
    ELSE mrp

rp_make_place_old(rp, place, latest) ==
    RegionProjection(mop_make_place_old(rp.place, place, latest), rp.region)

(***************************************************************************)
(* Edge kinds.                                                             *)
(***************************************************************************)
Reborrow(blocked, assigned, mutability, loc, region) ==
    [tag |-> "Reborrow", blocked_place |-> blocked, assigned_place |-> assigned,
     mutability |-> mutability, reserve_location |-> loc, region |-> region]

OwnedExpansion(base) == [tag |-> "OwnedExpansion", base |-> base]

BorrowExpansion(base, elems, loc) ==
    [tag |-> "BorrowExpansion", base |-> base, expansion |-> elems,
     location |-> loc]

\* An abstraction target: a place, or a region projection.
TargetPlace(p) == [tag |-> "Place", p |-> p]
TargetRegionProjection(rp) == [tag |-> "RegionProjection", rp |-> rp]

AbstractionBlockEdge(inputs, outputs) ==
    [inputs |-> inputs, outputs |-> outputs]

FunctionCallAbstraction(loc, edges) ==
    [tag |-> "Abstraction", type |-> "FunctionCall", location |-> loc,
     edges |-> edges]

\* LoopAbstraction::location is statement 0 of the loop's block.
LoopAbstraction(edge, block) ==
    [tag |-> "Abstraction", type |-> "Loop", location |-> Location(block, 0),
     edges |-> <<edge>>]

RegionProjectionMember(place, projection, loc, direction) ==
    [tag |-> "RegionProjectionMember", place |-> place,
     projection |-> projection, location |-> loc, direction |-> direction]

is_deref_expansion(k) == k.tag \in {"OwnedExpansion", "BorrowExpansion"}

is_owned_expansion(k) == k.tag = "OwnedExpansion"

\* DerefExpansion::expansion: the children, derived from the base.
expansion(k) ==
    IF k.tag = "OwnedExpansion"
    THEN {mop_project_deref(k.base)}
    ELSE { mop_project_deeper(k.base, k.expansion[i]) : i \in DOMAIN k.expansion }

abstraction_inputs(k) ==
    UNION { k.edges[i].inputs : i \in DOMAIN k.edges }

abstraction_outputs(k) ==
    UNION { k.edges[i].outputs : i \in DOMAIN k.edges }

\* AbstractionType::blocks_places
blocks_places(k) ==
    { t.p : t \in { i \in abstraction_inputs(k) : i.tag = "Place" } }

\* AbstractionType::blocker_places
blocker_places(k) ==
    { IF t.tag = "Place" THEN t.p ELSE t.rp.place : t \in abstraction_outputs(k) }

is_shared_borrow(k) == k.tag = "Reborrow" /\ k.mutability = "Not"

\* Faulty variant: a reborrow blocks its assigned place as well.
blocked_places_with_assigned(k) ==
    CASE k.tag = "Reborrow" -> {k.blocked_place, Local(k.assigned_place)}
      [] is_deref_expansion(k) -> {Local(k.base)}
      [] k.tag = "Abstraction" -> blocks_places(k)
      [] k.tag = "RegionProjectionMember" ->
            IF k.direction = "PlaceIsRegionInput" THEN {k.place} ELSE {}

blocked_places(k) ==
    CASE k.tag = "Reborrow" -> {k.blocked_place}
      [] is_deref_expansion(k) -> {Local(k.base)}
      [] k.tag = "Abstraction" -> blocks_places(k)
      [] k.tag = "RegionProjectionMember" ->
            IF k.direction = "PlaceIsRegionInput" THEN {k.place} ELSE {}

\* Faulty variant: a reborrow is held by no place.
blocked_by_places_reborrow_free(k) ==
    CASE k.tag = "Reborrow" -> {}
      [] is_deref_expansion(k) -> expansion(k)
      [] k.tag = "Abstraction" -> blocker_places(k)
      [] k.tag = "RegionProjectionMember" ->
            IF k.direction = "PlaceIsRegionInput"
            THEN {k.projection.place}
            ELSE as_local_places(k.place)

\* `member.place.as_local_place().unwrap()` aborts on a Remote place; the
\* set is then empty here and blocked_by_places_aborts says so.
blocked_by_places(k) ==
    CASE k.tag = "Reborrow" -> {k.assigned_place}
      [] is_deref_expansion(k) -> expansion(k)
      [] k.tag = "Abstraction" -> blocker_places(k)
      [] k.tag = "RegionProjectionMember" ->
            IF k.direction = "PlaceIsRegionInput"
            THEN {k.projection.place}
            ELSE as_local_places(k.place)

blocked_by_places_aborts(k) ==
    /\ k.tag = "RegionProjectionMember"
    /\ k.direction = "PlaceIsRegionOutput"
    /\ k.place.tag = "Remote"

(***************************************************************************)
(* make_place_old on each edge kind.                                       *)
(***************************************************************************)
target_in_make_place_old(t, place, latest) ==
    IF t.tag = "Place"
    THEN TargetPlace(mrp_make_place_old(t.p, place, latest))
    ELSE TargetRegionProjection(rp_make_place_old(t.rp, place, latest))

target_out_make_place_old(t, place, latest) ==
    IF t.tag = "Place"
    THEN TargetPlace(mop_make_place_old(t.p, place, latest))
    ELSE TargetRegionProjection(rp_make_place_old(t.rp, place, latest))

block_edge_make_place_old(e, place, latest) ==
    AbstractionBlockEdge(
        { target_in_make_place_old(t, place, latest) : t \in e.inputs },
        { target_out_make_place_old(t, place, latest) : t \in e.outputs })

\* DerefExpansion::make_place_old rewrites the base only.
deref_expansion_make_place_old(k, place, latest) ==
    [k EXCEPT !.base = mop_make_place_old(@, place, latest)]

kind_make_place_old(k, place, latest) ==
    CASE k.tag = "Reborrow" ->
            [k EXCEPT !.blocked_place = mrp_make_place_old(@, place, latest),
                      !.assigned_place = mop_make_place_old(@, place, latest)]
      [] is_deref_expansion(k) -> deref_expansion_make_place_old(k, place, latest)
      [] k.tag = "Abstraction" ->
            [k EXCEPT !.edges =
                [i \in DOMAIN k.edges |->
                    block_edge_make_place_old(k.edges[i], place, latest)]]
      [] k.tag = "RegionProjectionMember" ->
            [k EXCEPT !.place = mrp_make_place_old(@, place, latest),
                      !.projection = rp_make_place_old(@, place, latest)]

(***************************************************************************)
(* Path conditions: sets of basic-block transitions <<from, to>>.          *)
(***************************************************************************)
PathCondition(from, to) == <<from, to>>

\* PathConditions::new(block): no transition is required yet.
PathConditions_new(block) == {}

PathConditions_join(c, d) == c \cup d

\* The transitions a linear block sequence realizes.
PathTransitions(path) == { <<path[i], path[i + 1]>> : i \in 1..(Len(path) - 1) }

valid_for_path(conditions, path) == conditions \subseteq PathTransitions(path)

(***************************************************************************)
(* BorrowsGraph: a set of edges [conditions, kind].                        *)
(***************************************************************************)
BorrowsEdge(kind, conditions) == [conditions |-> conditions, kind |-> kind]

Graph_new == {}

Kinds(g) == { e.kind : e \in g }

\* Edges that are equal except in conditions become one edge that carries
\* the union of the conditions.
Graph_merge(edges) ==
    { BorrowsEdge(k, UNION { e.conditions : e \in { f \in edges : f.kind = k } })
        : k \in Kinds(edges) }

Graph_insert(g, e) == Graph_merge(g \cup {e})

Graph_remove(g, e) == g \ {e}

edges_blocking(g, mrp) == { e \in g : mrp \in blocked_places(e.kind) }

has_edge_blocking(g, mrp) == edges_blocking(g, mrp) # {}

Graph_reborrows(g) == { e \in g : e.kind.tag = "Reborrow" }

Graph_deref_expansions(g) == { e \in g : is_deref_expansion(e.kind) }

Graph_abstraction_edges(g) == { e \in g : e.kind.tag = "Abstraction" }

Graph_has_reborrow_at_location(g, loc) ==
    \E e \in Graph_reborrows(g) : e.kind.reserve_location = loc

Graph_remove_abstraction_at(g, loc) ==
    { e \in g : ~(e.kind.tag = "Abstraction" /\ e.kind.location = loc) }

Graph_add_reborrow(g, blocked, assigned, mutability, loc, region) ==
    Graph_insert(g, BorrowsEdge(
        Reborrow(blocked, Current(assigned), mutability, loc, region),
        PathConditions_new(loc.block)))

Graph_make_place_old(g, place, latest) ==
    Graph_merge({ BorrowsEdge(kind_make_place_old(e.kind, place, latest),
                              e.conditions) : e \in g })

Graph_add_path_condition(g, pc) ==
    { BorrowsEdge(e.kind, e.conditions \cup {pc}) : e \in g }

Graph_filter_for_path(g, path) ==
    { e \in g : valid_for_path(e.conditions, path) }

\* An incoming abstraction edge that a loop head summarizes: the loop
\* abstraction over the merge block with the same inputs and outputs.
LoopSummary(k, self_block) ==
    LoopAbstraction(
        AbstractionBlockEdge(abstraction_inputs(k), abstraction_outputs(k)),
        self_block)

\* `summarized` is the answer of the Polonius facts: the abstraction kinds
\* of `o` that are replaced by their loop summary.
Graph_join(g, o, self_block, other_block, summarized) ==
    LET inbound == PathCondition(other_block, self_block)
        own == PathCondition(self_block, self_block)
        incoming ==
            { BorrowsEdge(IF e.kind \in summarized
                          THEN LoopSummary(e.kind, self_block)
                          ELSE e.kind,
                          e.conditions \cup {inbound}) : e \in o }
        tagged ==
            { IF e.kind \in Kinds(o)
              THEN e
              ELSE BorrowsEdge(e.kind, e.conditions \cup {own}) : e \in g }
    IN  Graph_merge(tagged \cup incoming)

(***************************************************************************)
(* Substitution passes: every stored place equal to `old_place` becomes    *)
(* `new_place`; each returns [graph, ret].                                 *)
(***************************************************************************)
\* Faulty variant: the snapshot of the stored place is not compared.
mop_change_any_snapshot(mop, old_place, new_place) ==
    IF mop.place = old_place.place THEN new_place ELSE mop

mop_change(mop, old_place, new_place) ==
    IF mop = old_place THEN new_place ELSE mop

mrp_change(mrp, old_place, new_place) ==
    IF mrp.tag = "Local"
    THEN Local(mop_change(mrp.p, old_place, new_place))
    ELSE mrp

rp_change(rp, old_place, new_place) ==
    RegionProjection(mop_change(rp.place, old_place, new_place), rp.region)

target_in_change(t, old_place, new_place) ==
    IF t.tag = "Place"
    THEN TargetPlace(mrp_change(t.p, old_place, new_place))
    ELSE TargetRegionProjection(rp_change(t.rp, old_place, new_place))

target_out_change(t, old_place, new_place) ==
    IF t.tag = "Place"
    THEN TargetPlace(mop_change(t.p, old_place, new_place))
    ELSE TargetRegionProjection(rp_change(t.rp, old_place, new_place))

block_edge_change(e, old_place, new_place) ==
    AbstractionBlockEdge(
        { target_in_change(t, old_place, new_place) : t \in e.inputs },
        { target_out_change(t, old_place, new_place) : t \in e.outputs })

kind_change_maybe_old_place(k, old_place, new_place) ==
    CASE k.tag = "Reborrow" ->
            [k EXCEPT !.blocked_place = mrp_change(@, old_place, new_place),
                      !.assigned_place = mop_change(@, old_place, new_place)]
      [] is_deref_expansion(k) ->
            [k EXCEPT !.base = mop_change(@, old_place, new_place)]
      [] k.tag = "Abstraction" ->
            [k EXCEPT !.edges =
                [i \in DOMAIN k.edges |->
                    block_edge_change(k.edges[i], old_place, new_place)]]
      [] k.tag = "RegionProjectionMember" ->
            [k EXCEPT !.place = mrp_change(@, old_place, new_place),
                      !.projection = rp_change(@, old_place, new_place)]

Graph_change_maybe_old_place(g, old_place, new_place) ==
    LET changed ==
            { BorrowsEdge(
                kind_change_maybe_old_place(e.kind, old_place, new_place),
                e.conditions) : e \in g }
    IN  [graph |-> changed, ret |-> changed # g]

\* Only the assigned place of a reborrow is rewritten.
kind_move_reborrow(k, orig_assigned_place, new_assigned_place) ==
    IF k.tag = "Reborrow"
    THEN [k EXCEPT !.assigned_place =
            mop_change(@, orig_assigned_place, new_assigned_place)]
    ELSE k

Graph_move_reborrows(g, orig_assigned_place, new_assigned_place) ==
    { BorrowsEdge(
        kind_move_reborrow(e.kind, orig_assigned_place, new_assigned_place),
        e.conditions) : e \in g }

(***************************************************************************)
(* BorrowsState = [latest, graph].                                         *)
(***************************************************************************)
BorrowsState(latest, graph) == [latest |-> latest, graph |-> graph]

BorrowsState_new == BorrowsState(Latest_new, Graph_new)

set_latest(s, place, loc) ==
    [s EXCEPT !.latest = Latest_insert(@, place.local, loc)]

\* change_maybe_old_place: [state, ret]
change_maybe_old_place(s, old_place, new_place) ==
    LET r == Graph_change_maybe_old_place(s.graph, old_place, new_place)
    IN  [state |-> [s EXCEPT !.graph = r.graph], ret |-> r.ret]

move_reborrows(s, orig_assigned_place, new_assigned_place) ==
    [s EXCEPT !.graph =
        Graph_move_reborrows(@, orig_assigned_place, new_assigned_place)]

\* The locals of the Current places an edge blocks.
BlockedCurrentLocals(k) ==
    { m.p.place.local :
        m \in { b \in blocked_places(k) : b.tag = "Local" /\ is_current(b.p) } }

RECURSIVE set_latest_all(_, _, _)
set_latest_all(latest, locals, loc) ==
    IF locals = {} THEN latest
    ELSE LET l == CHOOSE l \in locals : TRUE
         IN  set_latest_all(Latest_insert(latest, l, loc), locals \ {l}, loc)

\* Faulty variant: the shared-borrow exemption is dropped.
remove_edge_and_set_latest_shared(s, edge, loc) ==
    BorrowsState(
        set_latest_all(s.latest, BlockedCurrentLocals(edge.kind), loc),
        Graph_remove(s.graph, edge))

\* Faulty variant: the edge is removed and latest is left alone.
remove_edge_only(s, edge, loc) ==
    BorrowsState(s.latest, Graph_remove(s.graph, edge))

remove_edge_and_set_latest(s, edge, loc) ==
    BorrowsState(
        IF ~is_shared_borrow(edge.kind)
        THEN set_latest_all(s.latest, BlockedCurrentLocals(edge.kind), loc)
        ELSE s.latest,
        Graph_remove(s.graph, edge))

\* `for edge in edges { self.remove_edge_and_set_latest(&edge, ..) }`
RECURSIVE remove_edges(_, _, _)
remove_edges(s, edges, loc) ==
    IF edges = {} THEN s
    ELSE LET e == CHOOSE e \in edges : TRUE
         IN  remove_edges(remove_edge_and_set_latest(s, e, loc), edges \ {e}, loc)

reborrow_edges_reserved_at(s, loc) ==
    { e \in s.graph : e.kind.tag = "Reborrow" /\ e.kind.reserve_location = loc }

\* kill_reborrows: [state, ret]
kill_reborrows(s, reserve_location, kill_location) ==
    LET edges_to_remove == reborrow_edges_reserved_at(s, reserve_location)
    IN  IF edges_to_remove = {}
        THEN [state |-> s, ret |-> FALSE]
        ELSE [state |-> remove_edges(s, edges_to_remove, kill_location),
              ret |-> TRUE]

\* delete_descendants_of: [state, ret]
delete_descendants_of(s, mop, loc) ==
    LET edges == edges_blocking(s.graph, Local(mop))
    IN  IF edges = {}
        THEN [state |-> s, ret |-> FALSE]
        ELSE [state |-> remove_edges(s, edges, loc), ret |-> TRUE]

\* Faulty variant: the latest map is updated as well.
BorrowsState_make_place_old_sets_latest(s, place, loc) ==
    BorrowsState(Latest_insert(s.latest, place.local, loc),
                 Graph_make_place_old(s.graph, place, s.latest))

\* BorrowsState::make_place_old: only the graph changes; `loc` is the
\* location of the debug context and is not used.
BorrowsState_make_place_old(s, place, loc) ==
    BorrowsState(s.latest, Graph_make_place_old(s.graph, place, s.latest))

(***************************************************************************)
(* minimize and trim_old_leaves: loops that remove edges until a pass      *)
(* finds none to remove.                                                   *)
(***************************************************************************)
\* The closure `is_old_unblocked` of minimize.
is_old_unblocked(s, edge) ==
    \A p \in blocked_by_places(edge.kind) :
        is_old(p) /\ ~has_edge_blocking(s.graph, Local(p))

\* `to_remove` of one pass of minimize.
minimize_to_remove(s) ==
    { edge \in s.graph :
        \/ is_old_unblocked(s, edge)
        \/ /\ is_deref_expansion(edge.kind)
           /\ ~is_owned_expansion(edge.kind)
           /\ \A p \in expansion(edge.kind) :
                 ~has_edge_blocking(s.graph, Local(p)) }

\* Faulty variant: a pass that finds edges to remove keeps them.
minimize_pass_keeps(s, loc) ==
    [state |-> s, exit |-> minimize_to_remove(s) = {}]

\* One pass of the loop of minimize: [state, exit].
minimize_pass(s, loc) ==
    LET to_remove == minimize_to_remove(s)
    IN  IF to_remove = {}
        THEN [state |-> s, exit |-> TRUE]
        ELSE [state |-> remove_edges(s, to_remove, loc), exit |-> FALSE]

\* Faulty variant: a single pass.
minimize_single_pass(s, loc) == minimize_pass(s, loc).state

RECURSIVE minimize(_, _)
minimize(s, loc) ==
    LET r == minimize_pass(s, loc)
    IN  IF r.exit THEN r.state ELSE minimize(r.state, loc)

\* The edges none of whose blocked-by places is blocked by an edge.
leaf_edges(g) ==
    { e \in g : \A p \in blocked_by_places(e.kind) :
                    ~has_edge_blocking(g, Local(p)) }

\* Faulty variant: every leaf edge is removed, old or not.
trim_leaves_pass(s, loc) ==
    LET leaves == leaf_edges(s.graph)
    IN  [state |-> remove_edges(s, leaves, loc), exit |-> leaves = {}]

\* One pass of the loop of trim_old_leaves: [state, exit]; `cont` is set
\* for every leaf edge whose blocked-by places are all old.
trim_old_leaves_pass(s, loc) ==
    LET old_leaves ==
            { edge \in leaf_edges(s.graph) :
                \A p \in blocked_by_places(edge.kind) : is_old(p) }
    IN  [state |-> remove_edges(s, old_leaves, loc), exit |-> old_leaves = {}]

RECURSIVE trim_old_leaves(_, _)
trim_old_leaves(s, loc) ==
    LET r == trim_old_leaves_pass(s, loc)
    IN  IF r.exit THEN r.state ELSE trim_old_leaves(r.state, loc)

\* An edge on which blocked_by_places aborts is in the graph.
graph_aborts(g) == \E e \in g : blocked_by_places_aborts(e.kind)

(***************************************************************************)
(* UnblockGraph: the edges scheduled for removal, and the ordered actions. *)
(***************************************************************************)
UnblockGraph_new == {}

\* Schedules `frontier` and, recursively, every edge blocking a place that
\* blocks a scheduled edge; an edge already scheduled is not visited again.
RECURSIVE UnblockClosure(_, _, _)
UnblockClosure(scheduled, s, frontier) ==
    LET new == frontier \ scheduled
        blockers == UNION { blocked_by_places(e.kind) : e \in new }
    IN  IF new = {} THEN scheduled
        ELSE UnblockClosure(scheduled \cup new, s,
                { e \in s.graph :
                    \E p \in blockers : Local(p) \in blocked_places(e.kind) })

unblock_place(ug, mrp, s) == UnblockClosure(ug, s, edges_blocking(s.graph, mrp))

kill_reborrow(ug, reborrow, s) == UnblockClosure(ug, s, {reborrow})

kill_abstraction(ug, s, abstraction) == UnblockClosure(ug, s, {abstraction})

\* A scheduled edge none of whose blockers is blocked by a scheduled edge.
ug_is_leaf(e, remaining) ==
    \A p \in blocked_by_places(e.kind) :
        \A f \in remaining : Local(p) \notin blocked_places(f.kind)

RECURSIVE SetToSeq(_)
SetToSeq(S) ==
    IF S = {} THEN <<>>
    ELSE LET e == CHOOSE e \in S : TRUE IN <<e>> \o SetToSeq(S \ {e})

\* The scheduled edges, leaves first; what a cycle leaves over comes last
\* in some order.
RECURSIVE ug_order(_)
ug_order(remaining) ==
    LET leaves == { e \in remaining : ug_is_leaf(e, remaining) }
    IN  IF remaining = {} THEN <<>>
        ELSE IF leaves = {} THEN SetToSeq(remaining)
        ELSE SetToSeq(leaves) \o ug_order(remaining \ leaves)

RECURSIVE has_error(_)
has_error(remaining) ==
    LET leaves == { e \in remaining : ug_is_leaf(e, remaining) }
    IN  IF remaining = {} THEN FALSE
        ELSE IF leaves = {} THEN TRUE
        ELSE has_error(remaining \ leaves)

TerminateReborrow(k) ==
    [tag |-> "TerminateReborrow", reserve_location |-> k.reserve_location,
     blocked_place |-> k.blocked_place, assigned_place |-> k.assigned_place,
     is_mut |-> (k.mutability = "Mut")]

Collapse(k) ==
    [tag |-> "Collapse", place |-> k.base, expansion |-> expansion(k)]

TerminateAbstraction(k) ==
    [tag |-> "TerminateAbstraction", location |-> k.location, abstraction |-> k]

\* The action scheduled for an edge; a region-projection member has none.
action_of(k) ==
    CASE k.tag = "Reborrow" -> <<TerminateReborrow(k)>>
      [] is_deref_expansion(k) -> <<Collapse(k)>>
      [] k.tag = "Abstraction" -> <<TerminateAbstraction(k)>>
      [] k.tag = "RegionProjectionMember" -> <<>>

RECURSIVE actions_of(_)
actions_of(edges) ==
    IF edges = <<>> THEN <<>>
    ELSE LET rest == actions_of(Tail(edges))
             a == action_of(Head(edges).kind)
         IN  a \o SelectSeq(rest, LAMBDA b : a = <<>> \/ b # a[1])

actions(ug) == actions_of(ug_order(ug))

(***************************************************************************)
(* apply_unblock_graph: [state, ret].                                      *)
(***************************************************************************)
\* Faulty variant: a TerminateReborrow removes nothing.
apply_action_skip_reborrow(s, a, loc) ==
    CASE a.tag = "TerminateReborrow" -> [state |-> s, ret |-> FALSE]
      [] a.tag = "Collapse" -> delete_descendants_of(s, a.place, loc)
      [] a.tag = "TerminateAbstraction" ->
            [state |-> [s EXCEPT !.graph =
                            Graph_remove_abstraction_at(@, a.location)],
             ret |-> FALSE]

\* Faulty variant: a Collapse removes nothing.
apply_action_skip_collapse(s, a, loc) ==
    CASE a.tag = "TerminateReborrow" -> kill_reborrows(s, a.reserve_location, loc)
      [] a.tag = "Collapse" -> [state |-> s, ret |-> FALSE]
      [] a.tag = "TerminateAbstraction" ->
            [state |-> [s EXCEPT !.graph =
                            Graph_remove_abstraction_at(@, a.location)],
             ret |-> FALSE]

\* Faulty variant: removing an abstraction edge is reported as a change.
apply_action_reports_abstraction(s, a, loc) ==
    CASE a.tag = "TerminateReborrow" -> kill_reborrows(s, a.reserve_location, loc)
      [] a.tag = "Collapse" -> delete_descendants_of(s, a.place, loc)
      [] a.tag = "TerminateAbstraction" ->
            [state |-> [s EXCEPT !.graph =
                            Graph_remove_abstraction_at(@, a.location)],
             ret |-> (Graph_remove_abstraction_at(s.graph, a.location)
                        # s.graph)]

apply_action(s, a, loc) ==
    CASE a.tag = "TerminateReborrow" -> kill_reborrows(s, a.reserve_location, loc)
      [] a.tag = "Collapse" -> delete_descendants_of(s, a.place, loc)
      [] a.tag = "TerminateAbstraction" ->
            [state |-> [s EXCEPT !.graph =
                            Graph_remove_abstraction_at(@, a.location)],
             ret |-> FALSE]

RECURSIVE apply_actions(_, _, _, _)
apply_actions(s, acts, loc, changed) ==
    IF acts = <<>> THEN [state |-> s, ret |-> changed]
    ELSE LET r == apply_action(s, Head(acts), loc)
         IN  apply_actions(r.state, Tail(acts), loc, changed \/ r.ret)

apply_unblock_graph(s, ug, loc) == apply_actions(s, actions(ug), loc, FALSE)

(***************************************************************************)
(* bridge and join.                                                        *)
(***************************************************************************)
\* Faulty variant: the expansions of `to` are not handed over.
bridge_no_expands(s, to) ==
    [added_reborrows |->
        { rb \in Graph_reborrows(to.graph) :
            ~Graph_has_reborrow_at_location(s.graph, rb.kind.reserve_location) },
     expands |-> {},
     ug |-> UnblockClosure(UnblockGraph_new, s,
                { rb \in Graph_reborrows(s.graph) :
                    ~Graph_has_reborrow_at_location(to.graph,
                                                    rb.kind.reserve_location) })]

bridge(s, to) ==
    LET killed == { rb \in Graph_reborrows(s.graph) :
                      ~Graph_has_reborrow_at_location(to.graph,
                                                      rb.kind.reserve_location) }
        collapsed == Graph_deref_expansions(s.graph)
                        \ Graph_deref_expansions(to.graph)
        ended == Graph_abstraction_edges(s.graph)
                        \ Graph_abstraction_edges(to.graph)
        ug1 == UnblockClosure(UnblockGraph_new, s, killed)
        ug2 == UnblockClosure(ug1, s,
                    UNION { edges_blocking(s.graph, Local(e.kind.base))
                              : e \in collapsed })
        ug3 == UnblockClosure(ug2, s, ended)
    IN  [added_reborrows |->
            { rb \in Graph_reborrows(to.graph) :
                ~Graph_has_reborrow_at_location(s.graph,
                                                rb.kind.reserve_location) },
         expands |-> Graph_deref_expansions(to.graph)
                        \ Graph_deref_expansions(s.graph),
         ug |-> ug3]

\* Faulty variant: the graph of `other` is not joined in.
BorrowsState_join_latest_only(s, o, self_block, other_block, summarized) ==
    [state |-> BorrowsState(Latest_join(s.latest, o.latest, self_block), s.graph),
     ret |-> FALSE]

\* Faulty variant: a change of latest is reported as well.
BorrowsState_join_reports_latest(s, o, self_block, other_block, summarized) ==
    LET g == Graph_join(s.graph, o.graph, self_block, other_block, summarized)
        l == Latest_join(s.latest, o.latest, self_block)
    IN  [state |-> BorrowsState(l, g),
         ret |-> (g # s.graph \/ l # s.latest)]

\* BorrowsState::join: [state, ret]; a change of latest alone is not
\* reported.
BorrowsState_join(s, o, self_block, other_block, summarized) ==
    LET g == Graph_join(s.graph, o.graph, self_block, other_block, summarized)
    IN  [state |-> BorrowsState(Latest_join(s.latest, o.latest, self_block), g),
         ret |-> (g # s.graph)]

(***************************************************************************)
(* ensure_deref_expansion_to_at_least: one expansion edge for every        *)
(* reference the projection chain of `place` crosses.                      *)
(***************************************************************************)
ProperPrefixes(place) ==
    { q \in Places : is_prefix(q, place) /\ q # place }

deref_expansion_from(q, loc) ==
    IF is_owned(q)
    THEN OwnedExpansion(Current(q))
    ELSE BorrowExpansion(Current(q), <<"Deref">>, loc)

contains_deref_expansion_from(g, q) ==
    \E e \in Graph_deref_expansions(g) : e.kind.base = Current(q)

Graph_ensure_deref_expansion_to_at_least(g, place, loc) ==
    Graph_merge(g \cup
        { BorrowsEdge(deref_expansion_from(q, loc), PathConditions_new(loc.block))
            : q \in { r \in ProperPrefixes(place) :
                        is_ref(r) /\ ~contains_deref_expansion_from(g, r) } })

(***************************************************************************)
(* ensure_expansion_to_exactly: members for the reborrows assigned under   *)
(* `place`, then `place` is unblocked, then expanded to.                   *)
(***************************************************************************)
RECURSIVE add_region_projection_members(_, _)
add_region_projection_members(s, members) ==
    IF members = {} THEN s
    ELSE LET m == CHOOSE m \in members : TRUE
         IN  add_region_projection_members(
                [s EXCEPT !.graph =
                    Graph_insert(@, BorrowsEdge(m,
                        PathConditions_new(m.location.block)))],
                members \ {m})

\* Faulty variant: only a reborrow assigned strictly under `place` gets
\* member edges.
ensure_expansion_to_exactly_strict(s, place, loc) ==
    LET reborrows ==
            { e \in s.graph :
                /\ e.kind.tag = "Reborrow"
                /\ is_current(e.kind.assigned_place)
                /\ is_prefix(place, e.kind.assigned_place.place)
                /\ e.kind.assigned_place.place # place }
        members ==
            { RegionProjectionMember(e.kind.blocked_place, ra, loc,
                                     "PlaceIsRegionInput")
                : e \in reborrows, ra \in region_projections(Current(place)) }
        with_members == add_region_projection_members(s, members)
        ug == unblock_place(UnblockGraph_new, Local(Current(place)),
                            with_members)
        unblocked == apply_unblock_graph(with_members, ug, loc).state
    IN  [unblocked EXCEPT !.graph =
            Graph_ensure_deref_expansion_to_at_least(@, place, loc)]

ensure_expansion_to_exactly(s, place, loc) ==
    LET reborrows ==
            { e \in s.graph :
                /\ e.kind.tag = "Reborrow"
                /\ is_current(e.kind.assigned_place)
                /\ is_prefix(place, e.kind.assigned_place.place) }
        members ==
            { RegionProjectionMember(e.kind.blocked_place, ra, loc,
                                     "PlaceIsRegionInput")
                : e \in reborrows, ra \in region_projections(Current(place)) }
        with_members == add_region_projection_members(s, members)
        ug == unblock_place(UnblockGraph_new, Local(Current(place)),
                            with_members)
        unblocked == apply_unblock_graph(with_members, ug, loc).state
    IN  [unblocked EXCEPT !.graph =
            Graph_ensure_deref_expansion_to_at_least(@, place, loc)]

(***************************************************************************)
(* The places an edge stores (its pcs_elems).                              *)
(***************************************************************************)
target_places(t) ==
    IF t.tag = "Place"
    THEN (IF t.p.tag \in {"Local", "Remote"} THEN as_local_places(t.p) ELSE {t.p})
    ELSE {t.rp.place}

stored_places(k) ==
    CASE k.tag = "Reborrow" -> {k.assigned_place} \cup as_local_places(k.blocked_place)
      [] is_deref_expansion(k) -> {k.base}
      [] k.tag = "Abstraction" ->
            UNION { target_places(t) :
                      t \in abstraction_inputs(k) \cup abstraction_outputs(k) }
      [] k.tag = "RegionProjectionMember" ->
            as_local_places(k.place) \cup {k.projection.place}

\* Every place an edge mentions: stored, blocked, or blocking.
mentioned_places(k) ==
    stored_places(k) \cup blocked_by_places(k)
        \cup UNION { as_local_places(b) : b \in blocked_places(k) }

(***************************************************************************)
(* The visitor: one operation per statement.                               *)
(***************************************************************************)
CurrentLocation == Location(blk, step)

Mutabilities == {"Mut", "Not"}

Init ==
    /\ st = BorrowsState_new
    /\ blk = 0
    /\ other = BorrowsState_new
    /\ oblk = 0
    /\ step = 0
    /\ last = [op |-> "init"]

Tick == step < MaxSteps /\ step' = step + 1

\* An assignment `assigned = &mut blocked` or `assigned = &blocked`.  The
\* visitor has aged `assigned` before (make_place_old), so no edge stores
\* a current place under `assigned`; the types of the two places fit.
Unmentioned(assigned) ==
    \A e \in st.graph : \A m \in mentioned_places(e.kind) :
        ~(is_current(m) /\ is_prefix(assigned, m.place))

CanReborrow(blocked, assigned) ==
    /\ is_ref(assigned)
    /\ RefsLeft(blocked) = RefsLeft(assigned) - 1
    /\ Unmentioned(assigned)

\* The assignments of the visited body: <<blocked, assigned>>.
\*   y = &mut x;  z = &mut *y;  z = &mut x;  x = &mut **z
ReborrowPairs ==
    { <<Place("x", Derefs(0)), Place("y", Derefs(0))>>,
      <<Place("y", Derefs(1)), Place("z", Derefs(0))>>,
      <<Place("x", Derefs(0)), Place("z", Derefs(0))>>,
      <<Place("z", Derefs(2)), Place("x", Derefs(0))>> }

MentionedInGraph(g, place) ==
    \E e \in g : \E m \in mentioned_places(e.kind) :
        is_prefix(place, m.place) \/ is_prefix(m.place, place)

AddReborrow ==
    \E pair \in ReborrowPairs, m \in Mutabilities :
      LET blocked == pair[1]
          assigned == pair[2]
      IN
        /\ Tick
        /\ CanReborrow(blocked, assigned)
        /\ Cardinality(st.graph) < MaxEdges
        /\ st' = [st EXCEPT !.graph =
                    Graph_add_reborrow(@, Local(Current(blocked)), assigned, m,
                        CurrentLocation, place_regions(assigned)[1])]
        /\ last' = [op |-> "add_reborrow", pre |-> st]
        /\ UNCHANGED <<blk, other, oblk>>

EnsureDerefExpansion ==
    \E place \in Places :
        /\ Tick
        /\ ProperPrefixes(place) # {}
        /\ MentionedInGraph(st.graph, place)
        /\ Cardinality(Graph_ensure_deref_expansion_to_at_least(
                            st.graph, place, CurrentLocation)) <= MaxEdges
        /\ st' = [st EXCEPT !.graph =
                    Graph_ensure_deref_expansion_to_at_least(@, place,
                                                             CurrentLocation)]
        /\ last' = [op |-> "ensure_deref_expansion_to_at_least", pre |-> st,
                    place |-> place]
        /\ UNCHANGED <<blk, other, oblk>>

\* make_place_old(place, debug_ctx); `again` is the state after the same
\* call directly afterwards.
MakePlaceOld ==
    \E place \in Places :
        /\ Tick
        /\ MentionedInGraph(st.graph, place)
        /\ st' = BorrowsState_make_place_old(st, place, CurrentLocation)
        /\ last' = [op |-> "make_place_old", pre |-> st, place |-> place,
                    location |-> CurrentLocation,
                    again |-> BorrowsState_make_place_old(
                                BorrowsState_make_place_old(st, place,
                                                            CurrentLocation),
                                place, CurrentLocation)]
        /\ UNCHANGED <<blk, other, oblk>>

SetLatest ==
    \E l \in Locals :
        /\ Tick
        /\ MentionedInGraph(st.graph, Place(l, <<>>))
        /\ st' = set_latest(st, Place(l, <<>>), CurrentLocation)
        /\ last' = [op |-> "set_latest", pre |-> st]
        /\ UNCHANGED <<blk, other, oblk>>

RemoveEdgeAndSetLatest ==
    \E edge \in st.graph :
        /\ Tick
        /\ st' = remove_edge_and_set_latest(st, edge, CurrentLocation)
        /\ last' = [op |-> "remove_edge_and_set_latest", pre |-> st,
                    edge |-> edge, location |-> CurrentLocation]
        /\ UNCHANGED <<blk, other, oblk>>

\* A function call `z = f(x)` at the current statement: one abstraction
\* edge from an input (a place or a region projection of x) to an output
\* of z, which the visitor has aged before like any assigned place.
AbstractionInputs ==
    { {TargetPlace(Local(Current(Place("x", <<>>))))},
      {TargetRegionProjection(RegionProjection(Current(Place("x", <<>>)), "rx"))} }

AbstractionOutputs ==
    { {TargetPlace(Current(Place("z", <<>>)))},
      {TargetRegionProjection(RegionProjection(Current(Place("z", <<>>)), "rz"))} }

add_region_abstraction(s, abstraction, block) ==
    [s EXCEPT !.graph =
        Graph_insert(@, BorrowsEdge(abstraction, PathConditions_new(block)))]

AddRegionAbstraction ==
    \E ins \in AbstractionInputs, outs \in AbstractionOutputs :
        /\ Tick
        /\ Unmentioned(Place("z", <<>>))
        /\ Cardinality(st.graph) < MaxEdges
        /\ st' = add_region_abstraction(st,
                    FunctionCallAbstraction(CurrentLocation,
                        <<AbstractionBlockEdge(ins, outs)>>), blk)
        /\ last' = [op |-> "add_region_abstraction", pre |-> st]
        /\ UNCHANGED <<blk, other, oblk>>

\* The members the visitor records: <<place, projection>>, for the
\* reference argument x and for a place x that a reference in y borrows.
Members ==
    { <<Remote("x"), RegionProjection(Current(Place("x", <<>>)), "rx")>>,
      <<Local(Current(Place("x", <<>>))),
        RegionProjection(Current(Place("y", <<>>)), "ry")>> }

MemberDirections == {"PlaceIsRegionInput", "PlaceIsRegionOutput"}

add_region_projection_member(s, member) ==
    [s EXCEPT !.graph =
        Graph_insert(@, BorrowsEdge(member,
                            PathConditions_new(member.location.block)))]

AddRegionProjectionMember ==
    \E member \in Members, d \in MemberDirections :
        /\ Tick
        /\ Cardinality(st.graph) < MaxEdges
        /\ st' = add_region_projection_member(st,
                    RegionProjectionMember(member[1], member[2],
                        CurrentLocation, d))
        /\ last' = [op |-> "add_region_projection_member", pre |-> st]
        /\ UNCHANGED <<blk, other, oblk>>

\* The places the visitor unblocks: a place some edge blocks, or the current
\* form of a place some edge blocks as a snapshot.
UnblockTargets(g) ==
    LET blocked == UNION { blocked_places(e.kind) : e \in g }
    IN  blocked \cup
        { Local(Current(m.p.place)) :
            m \in { b \in blocked : b.tag = "Local" /\ is_old(b.p) } }

\* apply_unblock_graph(unblock_place(target))
UnblockPlace ==
    \E target \in UnblockTargets(st.graph) :
      LET ug == unblock_place(UnblockGraph_new, target, st)
          r == apply_unblock_graph(st, ug, CurrentLocation)
      IN
        /\ Tick
        /\ st' = r.state
        /\ last' = [op |-> "unblock_place", pre |-> st, target |-> target,
                    ug |-> ug, plan |-> ug_order(ug), actions |-> actions(ug),
                    ret |-> r.ret, location |-> CurrentLocation]
        /\ UNCHANGED <<blk, other, oblk>>

\* UnblockGraph::kill_reborrow followed by apply_unblock_graph.
KillReborrow ==
    \E reborrow \in { e \in st.graph : e.kind.tag = "Reborrow" } :
      LET ug == kill_reborrow(UnblockGraph_new, reborrow, st)
          r == apply_unblock_graph(st, ug, CurrentLocation)
      IN
        /\ Tick
        /\ st' = r.state
        /\ last' = [op |-> "kill_reborrow", pre |-> st, reborrow |-> reborrow,
                    ug |-> ug, actions |-> actions(ug), ret |-> r.ret,
                    location |-> CurrentLocation]
        /\ UNCHANGED <<blk, other, oblk>>

EnsureExpansionToExactly ==
    \E place \in Places :
      LET r == ensure_expansion_to_exactly(st, place, CurrentLocation)
      IN
        /\ Tick
        /\ MentionedInGraph(st.graph, place)
        /\ Cardinality(r.graph) <= MaxEdges
        /\ st' = r
        /\ last' = [op |-> "ensure_expansion_to_exactly", pre |-> st,
                    place |-> place, location |-> CurrentLocation]
        /\ UNCHANGED <<blk, other, oblk>>

\* The places an edge of the graph stores.
StoredInGraph(g) == UNION { stored_places(e.kind) : e \in g }

\* The edge is one of the visited body, whatever the age of its places: a
\* reborrow of ReborrowPairs, an abstraction from x to z, a member of
\* Members, or a deref expansion.
InBody(k) ==
    CASE k.tag = "Reborrow" ->
            /\ k.blocked_place.tag = "Local"
            /\ <<k.blocked_place.p.place, k.assigned_place.place>>
                    \in ReborrowPairs
      [] is_deref_expansion(k) -> TRUE
      [] k.tag = "Abstraction" ->
            /\ \A t \in abstraction_inputs(k) : \A m \in target_places(t) :
                    m.place = Place("x", <<>>)
            /\ \A t \in abstraction_outputs(k) : \A m \in target_places(t) :
                    m.place = Place("z", <<>>)
      [] k.tag = "RegionProjectionMember" ->
            \E member \in Members :
                /\ k.projection.place.place = member[2].place.place
                /\ k.place.tag = member[1].tag
                /\ k.place.tag = "Local" =>
                        k.place.p.place = member[1].p.place

\* No edge mentions a current place that overlaps the place of `n`, other
\* than the place that is replaced.
FreshFor(g, n, old_place) ==
    \A e \in g : \A m \in mentioned_places(e.kind) :
        (is_current(m) /\ m # old_place) =>
            ~(is_prefix(n.place, m.place) \/ is_prefix(m.place, n.place))

\* A place is replaced by a place of the same type: a current place that
\* the graph does not use yet (the destination of a move), or a snapshot
\* the graph holds.
Replacements(g, old_place) ==
    { n \in { Current(q) : q \in Places } \cup
            { m \in StoredInGraph(g) : is_old(m) } :
        /\ n # old_place
        /\ RefsLeft(n.place) = RefsLeft(old_place.place)
        /\ is_current(n) => FreshFor(g, n, old_place) }

\* change_maybe_old_place(old_place, new_place); `back` is the graph after
\* change_maybe_old_place(new_place, old_place) directly afterwards. The
\* visitor substitutes places of the visited body: the rewritten edges are
\* edges of the body.
ChangeMaybeOldPlace ==
    \E old_place \in StoredInGraph(st.graph) :
      \E new_place \in Replacements(st.graph, old_place) :
        LET r == change_maybe_old_place(st, old_place, new_place)
        IN
          /\ Tick
          /\ \A e \in r.state.graph \ st.graph : InBody(e.kind)
          /\ st' = r.state
          /\ last' = [op |-> "change_maybe_old_place", pre |-> st,
                      old_place |-> old_place, new_place |-> new_place,
                      ret |-> r.ret,
                      back |-> change_maybe_old_place(r.state, new_place,
                                                      old_place).state.graph]
          /\ UNCHANGED <<blk, other, oblk>>

\* move_reborrows(orig_assigned_place, new_assigned_place)
MoveReborrows ==
    \E e \in Graph_reborrows(st.graph) :
      \E new_place \in Replacements(st.graph, e.kind.assigned_place) :
          /\ Tick
          /\ \A f \in move_reborrows(st, e.kind.assigned_place,
                                      new_place).graph \ st.graph :
                InBody(f.kind)
          /\ st' = move_reborrows(st, e.kind.assigned_place, new_place)
          /\ last' = [op |-> "move_reborrows", pre |-> st,
                      old_place |-> e.kind.assigned_place,
                      new_place |-> new_place]
          /\ UNCHANGED <<blk, other, oblk>>

\* minimize(repacker, location); the call aborts, and the state stays, when
\* blocked_by_places aborts on an edge.
Minimize ==
    /\ Tick
    /\ st.graph # {}
    /\ st' = IF graph_aborts(st.graph) THEN st ELSE minimize(st, CurrentLocation)
    /\ last' = [op |-> "minimize", pre |-> st, location |-> CurrentLocation,
                aborted |-> graph_aborts(st.graph)]
    /\ UNCHANGED <<blk, other, oblk>>

\* trim_old_leaves(repacker, location)
TrimOldLeaves ==
    /\ Tick
    /\ st.graph # {}
    /\ st' = IF graph_aborts(st.graph) THEN st
             ELSE trim_old_leaves(st, CurrentLocation)
    /\ last' = [op |-> "trim_old_leaves", pre |-> st,
                location |-> CurrentLocation,
                aborted |-> graph_aborts(st.graph)]
    /\ UNCHANGED <<blk, other, oblk>>

\* The operations that run without a loop of their own.
Statement ==
    \/ AddReborrow
    \/ EnsureDerefExpansion
    \/ AddRegionAbstraction
    \/ AddRegionProjectionMember
    \/ MakePlaceOld
    \/ SetLatest
    \/ RemoveEdgeAndSetLatest
    \/ UnblockPlace
    \/ EnsureExpansionToExactly
    \/ ChangeMaybeOldPlace
    \/ MoveReborrows

Next ==
    \/ Statement
    \/ Minimize
    \/ TrimOldLeaves

Spec == Init /\ [][Next]_vars

(***************************************************************************)
(* Control flow: the driver keeps the state at a split, visits the other   *)
(* successor, and joins or bridges the two states.                         *)
(***************************************************************************)
MaxJoinSteps == 2

Max(a, b) == IF a > b THEN a ELSE b

\* The block ends in a split: its exit state is kept and the visitor goes
\* on in a successor.
Fork ==
    /\ blk = oblk
    /\ blk < MaxBlock
    /\ other' = st
    /\ oblk' = blk
    /\ blk' = Max(blk, oblk) + 1
    /\ last' = [op |-> "fork"]
    /\ UNCHANGED <<st, step>>

\* The visitor turns to the other successor of the split, from the state
\* it kept; the state of the branch it leaves is kept in its place.
Swap ==
    /\ blk # oblk
    /\ Max(blk, oblk) < MaxBlock
    /\ st' = other
    /\ other' = st
    /\ oblk' = blk
    /\ blk' = Max(blk, oblk) + 1
    /\ last' = [op |-> "swap"]
    /\ UNCHANGED step

\* The driver joins or bridges once between two statements, and not after
\* the statement that follows a join.
AfterStatement ==
    /\ last.op \notin {"join", "merge", "bridge", "filter_for_path"}
    /\ step <= MaxJoinSteps

AbstractionKinds(s) == { e.kind : e \in Graph_abstraction_edges(s.graph) }

\* The answers the Polonius facts can give for the state that comes in:
\* none of its abstractions is summarized, or one of them is.
Summarizations(s) == {{}} \cup { {k} : k \in AbstractionKinds(s) }

\* st.join(other, blk, oblk, ..)
Join ==
    \E summarized \in Summarizations(other) :
      LET r == BorrowsState_join(st, other, blk, oblk, summarized)
      IN
        /\ AfterStatement
        /\ blk <= MaxBlock
        /\ st' = r.state
        /\ last' = [op |-> "join", pre |-> st, other |-> other,
                    self_block |-> blk, other_block |-> oblk,
                    summarized |-> summarized, ret |-> r.ret]
        /\ UNCHANGED <<blk, other, oblk, step>>

\* The entry state of a merge block: the driver joins the exit states of
\* the predecessors, one after the other, into the empty state.
MergeOf(p1, b1, sum1, p2, b2, sum2, m) ==
    BorrowsState_join(
        BorrowsState_join(BorrowsState_new, p1, m, b1, sum1).state,
        p2, m, b2, sum2).state

\* The edge kinds a predecessor contributes to the merge block `m`.
Contributed(p, b, sum, m) ==
    Kinds(BorrowsState_join(BorrowsState_new, p, m, b, sum).state.graph)

\* A merge of `st` and `other`; `swapped` is what the other order of the
\* predecessors gives.
Merge ==
    \E sum1 \in Summarizations(st), sum2 \in Summarizations(other) :
      LET m == Max(blk, oblk) + 1
      IN
        /\ AfterStatement
        /\ blk # oblk
        /\ Max(blk, oblk) <= MaxBlock
        /\ st' = MergeOf(st, blk, sum1, other, oblk, sum2, m)
        /\ blk' = m
        /\ last' = [op |-> "merge", p1 |-> st, p2 |-> other,
                    swapped |-> MergeOf(other, oblk, sum2, st, blk, sum1, m),
                    blocks |-> <<blk, oblk>>,
                    contributed |-> <<Contributed(st, blk, sum1, m),
                                      Contributed(other, oblk, sum2, m)>>]
        /\ UNCHANGED <<other, oblk, step>>

\* BorrowsState::filter_for_path
filter_for_path(s, path) ==
    [s EXCEPT !.graph = Graph_filter_for_path(@, path)]

\* The driver specializes the entry state of the merge block to the path
\* through one of the two predecessors.
FilterForPath ==
    \E i \in {1, 2} :
      LET path == <<last.blocks[i], blk>>
      IN
        /\ last.op = "merge"
        /\ st' = filter_for_path(st, path)
        /\ last' = [op |-> "filter_for_path", pre |-> st, path |-> path,
                    from |-> last.contributed[i],
                    from_other |-> last.contributed[3 - i]]
        /\ UNCHANGED <<blk, other, oblk, step>>

RECURSIVE insert_all(_, _)
insert_all(g, edges) ==
    IF edges = {} THEN g
    ELSE LET e == CHOOSE e \in edges : TRUE
         IN  insert_all(Graph_insert(g, e), edges \ {e})

\* other.bridge(st), and the bridge applied to `other`: the unblock graph,
\* then the added reborrows and the expansions.
Bridge ==
    LET r == bridge(other, st)
        unblocked == apply_unblock_graph(other, r.ug, CurrentLocation).state
    IN
        /\ AfterStatement
        /\ last' = [op |-> "bridge", from |-> other, to |-> st, bridge |-> r,
                    actions |-> actions(r.ug),
                    result |-> insert_all(unblocked.graph,
                                          r.added_reborrows \cup r.expands)]
        /\ UNCHANGED <<st, blk, other, oblk, step>>

\* The first statement of the block entered by a join: an assignment that
\* ages a place, or a move that replaces one.
AfterJoin ==
    /\ last.op \in {"join", "merge"}
    /\ step <= MaxJoinSteps
    /\ (MakePlaceOld \/ ChangeMaybeOldPlace \/ KillReborrow)

NextJoin ==
    \/ (step < MaxJoinSteps /\ Next)
    \/ Fork
    \/ Swap
    \/ Join
    \/ Merge
    \/ FilterForPath
    \/ Bridge
    \/ AfterJoin

SpecJoin == Init /\ [][NextJoin]_vars

(***************************************************************************)
(* The loops of minimize and trim_old_leaves, one pass per step: the call  *)
(* enters its loop, and each pass either removes edges or exits.           *)
(***************************************************************************)
MaxLoopSteps == 3

\* No pass is taken after this many; a loop that shrinks the graph in
\* every pass exits earlier.
MaxPasses == MaxEdges + 2

Running == last.op \in {"minimize_pass", "trim_old_leaves_pass"} /\ ~last.exit

MinimizeEnter ==
    /\ ~Running
    /\ Tick
    /\ st.graph # {}
    /\ ~graph_aborts(st.graph)
    /\ last' = [op |-> "minimize_pass", exit |-> FALSE, passes |-> 0,
                pre |-> st, location |-> CurrentLocation]
    /\ UNCHANGED <<st, blk, other, oblk>>

MinimizePass ==
    LET r == minimize_pass(st, last.location)
    IN  /\ Running
        /\ last.op = "minimize_pass"
        /\ last.passes < MaxPasses
        /\ st' = r.state
        /\ last' = [last EXCEPT !.exit = r.exit, !.passes = @ + 1]
        /\ UNCHANGED <<blk, other, oblk, step>>

TrimOldLeavesEnter ==
    /\ ~Running
    /\ Tick
    /\ st.graph # {}
    /\ ~graph_aborts(st.graph)
    /\ last' = [op |-> "trim_old_leaves_pass", exit |-> FALSE, passes |-> 0,
                pre |-> st, location |-> CurrentLocation]
    /\ UNCHANGED <<st, blk, other, oblk>>

TrimOldLeavesPass ==
    LET r == trim_old_leaves_pass(st, last.location)
    IN  /\ Running
        /\ last.op = "trim_old_leaves_pass"
        /\ last.passes < MaxPasses
        /\ st' = r.state
        /\ last' = [last EXCEPT !.exit = r.exit, !.passes = @ + 1]
        /\ UNCHANGED <<blk, other, oblk, step>>

NextLoop ==
    \/ (~Running /\ step < MaxLoopSteps /\ Statement)
    \/ MinimizeEnter
    \/ MinimizePass
    \/ TrimOldLeavesEnter
    \/ TrimOldLeavesPass

\* The analysis is single-threaded and synchronous: a loop that was
\* entered takes its next pass.
SpecLoop ==
    /\ Init
    /\ [][NextLoop]_vars
    /\ WF_vars(MinimizePass)
    /\ WF_vars(TrimOldLeavesPass)

(***************************************************************************)
(* An ill-formed caller: add_region_projection_member takes any member,    *)
(* also one whose place is the dereference of the place of its projection. *)
(* With the expansion of that place the edges block each other in a cycle. *)
(***************************************************************************)
MaxCyclicSteps == 3

MembersOfChild ==
    { <<Local(Current(Place(l, <<"Deref">>))),
        RegionProjection(Current(Place(l, <<>>)), LocalRegions(l)[1])>>
        : l \in {"x", "y"} }

AddRegionProjectionMemberOfChild ==
    \E member \in MembersOfChild :
        /\ Tick
        /\ Cardinality(st.graph) < MaxEdges
        /\ st' = add_region_projection_member(st,
                    RegionProjectionMember(member[1], member[2],
                        CurrentLocation, "PlaceIsRegionInput"))
        /\ last' = [op |-> "add_region_projection_member", pre |-> st]
        /\ UNCHANGED <<blk, other, oblk>>

NextCyclic ==
    \/ (step < MaxCyclicSteps /\ Statement)
    \/ (step < MaxCyclicSteps /\ AddRegionProjectionMemberOfChild)

SpecCyclic == Init /\ [][NextCyclic]_vars

(***************************************************************************)
(* get_place_blocking: None, Some(place), or the call fails (todo!()).     *)
(***************************************************************************)
\* Faulty variant: with several blocking edges, the assigned place of one
\* of the reborrows among them is returned.
get_place_blocking_any(s, place) ==
    LET edges == edges_blocking(s.graph, place)
        reborrows == { e \in edges : e.kind.tag = "Reborrow" }
    IN  IF edges = {} THEN [tag |-> "None"]
        ELSE IF reborrows # {}
        THEN [tag |-> "Some",
              place |-> (CHOOSE e \in reborrows : TRUE).kind.assigned_place]
        ELSE [tag |-> "Fails"]

get_place_blocking(s, place) ==
    LET edges == edges_blocking(s.graph, place)
    IN  IF Cardinality(edges) # 1 THEN [tag |-> "None"]
        ELSE LET edge == CHOOSE e \in edges : TRUE
             IN  IF edge.kind.tag = "Reborrow"
                 THEN [tag |-> "Some", place |-> edge.kind.assigned_place]
                 ELSE [tag |-> "Fails"]

GetPlaceBlocking ==
    \E place \in UnblockTargets(st.graph)
                    \cup { Local(Current(p)) : p \in Places } :
        /\ Tick
        /\ last' = [op |-> "get_place_blocking", pre |-> st, place |-> place,
                    ret |-> get_place_blocking(st, place)]
        /\ UNCHANGED <<st, blk, other, oblk>>

(***************************************************************************)
(* A body that also assigns through a reference: *y = &mut *x. The         *)
(* assigned place *y lies strictly under y.                                *)
(***************************************************************************)
MaxExactSteps == 3

ReborrowPairsOfChild ==
    { <<Place("x", Derefs(1)), Place("y", Derefs(1))>> }

AddReborrowOfChild ==
    \E pair \in ReborrowPairsOfChild, m \in Mutabilities :
      LET blocked == pair[1]
          assigned == pair[2]
      IN
        /\ Tick
        /\ CanReborrow(blocked, assigned)
        /\ Cardinality(st.graph) < MaxEdges
        /\ st' = [st EXCEPT !.graph =
                    Graph_add_reborrow(@, Local(Current(blocked)), assigned, m,
                        CurrentLocation, place_regions(assigned)[1])]
        /\ last' = [op |-> "add_reborrow", pre |-> st]
        /\ UNCHANGED <<blk, other, oblk>>

NextExact ==
    \/ (step < MaxExactSteps /\ Statement)
    \/ (step < MaxExactSteps /\ AddReborrowOfChild)
    \/ (step < MaxExactSteps /\ GetPlaceBlocking)

SpecExact == Init /\ [][NextExact]_vars

(***************************************************************************)
(* Properties.                                                             *)
(***************************************************************************)
LocalPlaces(mrps) == UNION { as_local_places(b) : b \in mrps }

\* What the contract of make_place_old asks of one place.
AgedBy(m, place, latest) ==
    IF is_current(m) /\ is_prefix(place, m.place)
    THEN OldPlace(m.place, Latest_get(latest, m.place))
    ELSE m

AgedRemoteBy(b, place, latest) ==
    IF b.tag = "Local" THEN Local(AgedBy(b.p, place, latest)) ELSE b

\* Edge f is edge e with its stored places aged.
IsAgedEdge(f, e, place, latest) ==
    /\ f.kind.tag = e.kind.tag
    /\ stored_places(f.kind)
          = { AgedBy(m, place, latest) : m \in stored_places(e.kind) }
    /\ blocked_places(f.kind)
          = { AgedRemoteBy(b, place, latest) : b \in blocked_places(e.kind) }
    /\ e.conditions \subseteq f.conditions

IsCurrentUnder(m, place) == is_current(m) /\ is_prefix(place, m.place)

\* C1 (as stated): after make_place_old(place) no edge's blocked_places()
\* or blocked_by_places() contains a Current place that has `place` as a
\* prefix, the children a DerefExpansion derives from its base included.
C1_NoCurrentLeft ==
    last.op = "make_place_old" =>
        \A e \in st.graph :
            \A m \in LocalPlaces(blocked_places(e.kind)) \cup blocked_by_places(e.kind) :
                ~IsCurrentUnder(m, last.place)

\* C1 (amended): after make_place_old(place) every edge is the edge it was
\* with each stored Current place under `place` replaced by its snapshot at
\* latest.get and each Old place untouched; no stored or blocked place is
\* still Current under `place`, and a blocking place is only as the child
\* of a DerefExpansion whose base is not under `place`.
C1_StoredPlacesAged ==
    last.op = "make_place_old" =>
        /\ \A e \in last.pre.graph : \E f \in st.graph :
                IsAgedEdge(f, e, last.place, last.pre.latest)
        /\ \A f \in st.graph : \E e \in last.pre.graph :
                IsAgedEdge(f, e, last.place, last.pre.latest)
        /\ \A f \in st.graph :
            /\ \A m \in stored_places(f.kind) \cup LocalPlaces(blocked_places(f.kind)) :
                    ~IsCurrentUnder(m, last.place)
            /\ \A m \in blocked_by_places(f.kind) :
                    IsCurrentUnder(m, last.place) =>
                        /\ is_deref_expansion(f.kind)
                        /\ is_current(f.kind.base)
                        /\ ~is_prefix(last.place, f.kind.base.place)

\* make_place_old has aged a Current place of an edge that also stores an
\* Old place.
C1_Witness ==
    /\ last.op = "make_place_old"
    /\ \E e \in last.pre.graph :
        /\ \E m \in stored_places(e.kind) : IsCurrentUnder(m, last.place)
        /\ \E m \in stored_places(e.kind) : is_old(m)

SetByRemoval(e) ==
    IF e.kind.tag = "Reborrow" /\ e.kind.mutability = "Not"
    THEN {}
    ELSE { b.p.place.local :
            b \in { c \in blocked_places(e.kind) :
                      c.tag = "Local" /\ is_current(c.p) } }

HeldBy(k) ==
    IF k.tag = "Reborrow" THEN {k.assigned_place} ELSE blocked_by_places(k)

\* Edge f blocks a place that holds the blockage of edge e.
Blocks(f, e) ==
    /\ f # e
    /\ \E p \in HeldBy(e.kind) : Local(p) \in blocked_places(f.kind)

HasAction(e) == action_of(e.kind) # <<>>

\* While the actions are applied in order: when the action scheduled for
\* an edge is applied, no edge that blocks it and has an action is left.
RECURSIVE AppliedBottomUp(_, _, _)
AppliedBottomUp(s, acts, loc) ==
    \/ acts = <<>>
    \/ /\ \A e \in { d \in s.graph : action_of(d.kind) = <<Head(acts)>> } :
            \A f \in s.graph : HasAction(f) => ~Blocks(f, e)
       /\ AppliedBottomUp(apply_action(s, Head(acts), loc).state,
                          Tail(acts), loc)

ActionIndex(acts, e) ==
    IF \E i \in DOMAIN acts : <<acts[i]>> = action_of(e.kind)
    THEN CHOOSE i \in DOMAIN acts : <<acts[i]>> = action_of(e.kind)
    ELSE 0

MemberKinds(g) == { k \in Kinds(g) : k.tag = "RegionProjectionMember" }

\* What the bridge can carry from A to B: no abstraction or member new in
\* B, no member to drop, reborrows of one reserve location alike, and no
\* edge of B torn down (but an expansion B holds under other conditions).
Bridgeable(A, B, ug) ==
    /\ Graph_abstraction_edges(B.graph) \subseteq Graph_abstraction_edges(A.graph)
    /\ MemberKinds(A.graph) = MemberKinds(B.graph)
    /\ \A a \in Graph_reborrows(A.graph), b \in Graph_reborrows(B.graph) :
            a.kind.reserve_location = b.kind.reserve_location => a.kind = b.kind
    /\ \A e \in ug :
            e.kind \in Kinds(B.graph) =>
                is_deref_expansion(e.kind) /\ e \notin B.graph

C7_JoinCommutes ==
    last.op = "merge" => st = last.swapped

\* C8: A.join(A, ..) leaves A as it was and reports no change.
C8_JoinIdempotent ==
    (last.op = "join" /\ last.other = last.pre)
        => (st = last.pre /\ ~last.ret)

C10_ReportsAnyChange ==
    last.op = "join" => (last.ret <=> st # last.pre)

\* C10 (amended): join returns true exactly when it changed the graph; a
\* call that changed only the latest map returns false.
C10_ReportsGraphChange ==
    last.op = "join" => (last.ret <=> st.graph # last.pre.graph)

\* A join that changed the latest map and not the graph.
C10_Witness ==
    /\ last.op = "join"
    /\ st.graph = last.pre.graph
    /\ st.latest # last.pre.latest

(***************************************************************************)
(* C11: after a merge of two predecessors at block M, filter_for_path over *)
(* the path [P, M] keeps every edge that only predecessor P contributed   *)
(* and removes every edge that only the other predecessor contributed.     *)
(***************************************************************************)
C11_FilterKeepsContributed ==
    last.op = "filter_for_path" =>
        /\ (last.from \ last.from_other) \subseteq Kinds(st.graph)
        /\ (last.from_other \ last.from) \cap Kinds(st.graph) = {}

(***************************************************************************)
(* C12: after minimize returns, the graph has no edge whose blocked-by     *)
(* places are all old and blocked by no edge, and no borrow expansion      *)
(* whose children are all blocked by no edge.                              *)
(***************************************************************************)
BlockedInGraph(g, p) == \E f \in g : Local(p) \in blocked_places(f.kind)

\* C12: after minimize no edge is left that a further pass would remove.
C12_MinimizeFixpoint ==
    (last.op = "minimize" /\ ~last.aborted) =>
        \A e \in st.graph :
            /\ \E p \in blocked_by_places(e.kind) :
                    is_current(p) \/ BlockedInGraph(st.graph, p)
            /\ e.kind.tag = "BorrowExpansion" =>
                    \E p \in expansion(e.kind) : BlockedInGraph(st.graph, p)

\* minimize removed edges in more than one pass and left some.
C12_Witness ==
    /\ last.op = "minimize"
    /\ ~last.aborted
    /\ st.graph # {}
    /\ minimize_single_pass(last.pre, last.location).graph
            \notin {st.graph, last.pre.graph}

(***************************************************************************)
(* C13: minimize and trim_old_leaves terminate: every pass of their loops  *)
(* that does not exit leaves the graph with fewer edges than it found, and *)
(* a loop that was entered exits.                                          *)
(***************************************************************************)
PassShrinks ==
    (Running /\ Running') =>
        Cardinality(st'.graph) < Cardinality(st.graph)

\* C13: the loops of minimize and trim_old_leaves come to their exit.
C13_LoopsTerminate ==
    /\ [][PassShrinks]_vars
    /\ Running ~> ~Running

\* A loop exited after two passes that removed edges.
C13_Witness ==
    /\ last.op \in {"minimize_pass", "trim_old_leaves_pass"}
    /\ last.exit
    /\ last.passes >= 3
    /\ Cardinality(last.pre.graph) >= Cardinality(st.graph) + 2

(***************************************************************************)
(* C14: unblock_place and actions() finish on a graph whose edges block    *)
(* each other in a cycle: has_error() is true for the cyclic unblock       *)
(* graph, actions() holds the action of every scheduled edge exactly once, *)
(* and applying them removes every scheduled edge that has an action.      *)
(***************************************************************************)
\* Some scheduled edges block each other in a cycle: a nonempty set of
\* them in which every edge is held by a place another one blocks.
Cyclic(ug) ==
    \E S \in SUBSET ug :
        /\ S # {}
        /\ \A e \in S : \E f \in S : \E p \in blocked_by_places(e.kind) :
                Local(p) \in blocked_places(f.kind)

NoDuplicates(seq) ==
    \A i, j \in DOMAIN seq : seq[i] = seq[j] => i = j

ScheduledActions(ug) == UNION { Range(action_of(e.kind)) : e \in ug }

\* C14: on a cyclic graph the plan reports the cycle, holds the action of
\* each scheduled edge once, and applying it removes those edges.
C14_CyclicPlanned ==
    last.op = "unblock_place" =>
        /\ Cyclic(last.ug) => has_error(last.ug)
        /\ NoDuplicates(last.actions)
        /\ Range(last.actions) = ScheduledActions(last.ug)
        /\ \A e \in last.ug : HasAction(e) => e \notin st.graph

\* A cyclic unblock graph was planned and applied.
C14_Witness ==
    /\ last.op = "unblock_place"
    /\ Cyclic(last.ug)
    /\ has_error(last.ug)
    /\ Len(last.actions) >= 1
    /\ st.graph # last.pre.graph

(***************************************************************************)
(* C15: in every reachable state, the places an edge blocks and the places *)
(* that hold it are disjoint, for every edge of the graph.                 *)
(***************************************************************************)
C15_BlockedDisjoint ==
    \A e \in st.graph :
        \A p \in blocked_by_places(e.kind) :
            Local(p) \notin blocked_places(e.kind)

\* A join has brought together two edges, one of them rewritten by
\* make_place_old or a substitution, each with blocked and blocking places.
C15_Witness ==
    /\ last.op \in {"join", "merge"}
    /\ Cardinality(st.graph) >= 2
    /\ \A e \in st.graph :
            blocked_places(e.kind) # {} /\ blocked_by_places(e.kind) # {}
    /\ \E e \in st.graph : \E m \in stored_places(e.kind) : is_old(m)

(***************************************************************************)
(* C16: the graph never holds two distinct edges with the same kind: an    *)
(* edge whose kind is already in the graph is merged into one edge that    *)
(* carries the union of the path conditions.                               *)
(***************************************************************************)
NoSplitEdges(g) == \A e, f \in g : e.kind = f.kind => e = f

\* C16: no edge kind is in the graph twice under different conditions.
C16_NoSplitEdges == NoSplitEdges(st.graph)

(***************************************************************************)
(* C17: snapshots are frozen. An operation that rewrites the places of the *)
(* edges (make_place_old, change_maybe_old_place, move_reborrows) leaves   *)
(* every Old place of every edge as it is, unless it is a substitution     *)
(* called with that Old place as the place to replace; an operation that   *)
(* only removes edges leaves the remaining edges as they are.              *)
(***************************************************************************)
mop_frozen(m1, m2) == is_old(m1) => m2 = m1

mrp_frozen(m1, m2) == (m1.tag = "Local" /\ is_old(m1.p)) => m2 = m1

targets_frozen(ts1, ts2) ==
    \A t \in ts1 : (\E m \in target_places(t) : is_old(m)) => t \in ts2

\* Every Old place of k1 is at the same position of k2.
OldKept(k1, k2) ==
    /\ k2.tag = k1.tag
    /\ CASE k1.tag = "Reborrow" ->
              /\ mrp_frozen(k1.blocked_place, k2.blocked_place)
              /\ mop_frozen(k1.assigned_place, k2.assigned_place)
         [] is_deref_expansion(k1) -> mop_frozen(k1.base, k2.base)
         [] k1.tag = "Abstraction" ->
              /\ DOMAIN k2.edges = DOMAIN k1.edges
              /\ \A i \in DOMAIN k1.edges :
                    /\ targets_frozen(k1.edges[i].inputs, k2.edges[i].inputs)
                    /\ targets_frozen(k1.edges[i].outputs, k2.edges[i].outputs)
         [] k1.tag = "RegionProjectionMember" ->
              /\ mrp_frozen(k1.place, k2.place)
              /\ mop_frozen(k1.projection.place, k2.projection.place)

RewritingOps == {"make_place_old", "change_maybe_old_place", "move_reborrows"}

RemovingOps ==
    {"unblock_place", "remove_edge_and_set_latest", "minimize",
     "trim_old_leaves"}

\* What the last operation made of the edge kind k.
Rewritten(k) ==
    CASE last.op = "make_place_old" ->
            kind_make_place_old(k, last.place, last.pre.latest)
      [] last.op = "change_maybe_old_place" ->
            kind_change_maybe_old_place(k, last.old_place, last.new_place)
      [] last.op = "move_reborrows" ->
            kind_move_reborrow(k, last.old_place, last.new_place)

RewriteKeepsSnapshots ==
    \A e \in last.pre.graph :
        /\ Rewritten(e.kind) \in Kinds(st.graph)
        /\ OldKept(e.kind, Rewritten(e.kind))

SubstitutesSnapshot ==
    /\ last.op \in {"change_maybe_old_place", "move_reborrows"}
    /\ is_old(last.old_place)

C18_MakePlaceOldIdempotent ==
    last.op = "make_place_old" => last.again = st

\* The first call has aged a place of a graph that already held a snapshot
\* of a place under `p`.
C18_Witness ==
    /\ last.op = "make_place_old"
    /\ st.graph # last.pre.graph
    /\ \E o \in StoredInGraph(last.pre.graph) :
          is_old(o) /\ is_prefix(last.place, o.place)

(***************************************************************************)
(* C19: substitution round trip. change_maybe_old_place(old, new) directly *)
(* followed by change_maybe_old_place(new, old) gives the graph back when  *)
(* no edge stores `new` before the first call.                             *)
(***************************************************************************)
C19_RoundTripFresh ==
    (/\ last.op = "change_maybe_old_place"
     /\ last.new_place \notin StoredInGraph(last.pre.graph)) =>
        last.back = last.pre.graph

\* A substitution that changed the graph, of a place that is stored next
\* to another snapshot or the current form of the same place.
C19_Witness ==
    /\ last.op = "change_maybe_old_place"
    /\ last.new_place \notin StoredInGraph(last.pre.graph)
    /\ last.ret
    /\ st.graph # last.pre.graph
    /\ \E m \in StoredInGraph(last.pre.graph) :
          m # last.old_place /\ m.place = last.old_place.place

\* The claim as stated: also when `new` already occurs in an edge.
C19_RoundTrip ==
    last.op = "change_maybe_old_place" => last.back = last.pre.graph

(***************************************************************************)
(* C20: scenario 4. After y = &mut x, z = &mut *y and make_place_old(x),   *)
(* apply_unblock_graph(unblock_place(Current(x))) leaves no edge and sets  *)
(* latest[y.local] and latest[z.local] to the location of the call.        *)
(***************************************************************************)
Scenario4Graph(g) ==
    /\ Cardinality(g) = 2
    /\ \E e \in g :
          /\ e.kind.tag = "Reborrow"
          /\ e.kind.mutability = "Mut"
          /\ e.kind.blocked_place.tag = "Local"
          /\ is_old(e.kind.blocked_place.p)
          /\ e.kind.blocked_place.p.place = Place("x", Derefs(0))
          /\ e.kind.assigned_place = Current(Place("y", Derefs(0)))
    /\ \E e \in g :
          /\ e.kind.tag = "Reborrow"
          /\ e.kind.mutability = "Mut"
          /\ e.kind.blocked_place = Local(Current(Place("y", Derefs(1))))
          /\ e.kind.assigned_place = Current(Place("z", Derefs(0)))

\* C20: scenario 4 ends with no edge and with latest of y and z set to the
\* location of the call.
C20_Scenario4 ==
    (/\ last.op = "unblock_place"
     /\ last.target = Local(Current(Place("x", Derefs(0))))
     /\ Scenario4Graph(last.pre.graph)) =>
        /\ st.graph = {}
        /\ Latest_get(st.latest, Place("y", Derefs(0))) = last.location
        /\ Latest_get(st.latest, Place("z", Derefs(0))) = last.location

(***************************************************************************)
(* C21: teardown applies the latest rule. After minimize, trim_old_leaves  *)
(* or apply_unblock_graph, the local of every Current place that a removed *)
(* non-shared edge blocked has the location of the call as its latest      *)
(* location.                                                               *)
(***************************************************************************)
TeardownOps == {"unblock_place", "minimize", "trim_old_leaves"}

RemovedByLast == last.pre.graph \ st.graph

LatestRuleApplied(e) ==
    ~is_shared_borrow(e.kind) =>
        \A l \in BlockedCurrentLocals(e.kind) :
            Latest_get(st.latest, Place(l, <<>>)) = last.location

\* An abstraction edge that apply_unblock_graph removed: through
\* TerminateAbstraction, or through a Collapse of a place it blocks.
UnblockedAbstraction(e) ==
    last.op = "unblock_place" /\ e.kind.tag = "Abstraction"

\* C21: the claim without the abstraction edges of apply_unblock_graph; a
\* plan of TerminateAbstraction actions alone leaves latest as it was.
C21_TeardownSetsLatest ==
    last.op \in TeardownOps =>
        /\ \A e \in RemovedByLast :
                ~UnblockedAbstraction(e) => LatestRuleApplied(e)
        /\ (/\ last.op = "unblock_place"
            /\ \A i \in DOMAIN last.actions :
                    last.actions[i].tag = "TerminateAbstraction") =>
                st.latest = last.pre.latest

\* apply_unblock_graph removed a mutable reborrow of a Current place and an
\* abstraction edge.
C21_Witness ==
    /\ last.op = "unblock_place"
    /\ \E e \in RemovedByLast :
          /\ e.kind.tag = "Reborrow"
          /\ ~is_shared_borrow(e.kind)
          /\ BlockedCurrentLocals(e.kind) # {}
    /\ \E e \in RemovedByLast : e.kind.tag = "Abstraction"

\* The claim as stated: every removed edge, abstraction edges included.
C21_AllThroughRemoveEdge ==
    last.op \in TeardownOps =>
        \A e \in RemovedByLast : LatestRuleApplied(e)

(***************************************************************************)
(* C22: for every edge, blocked_places() and blocked_by_places() return    *)
(* the sets of the edge-taxonomy table, and is_shared_borrow() is true     *)
(* only for a Reborrow with shared mutability.                             *)
(***************************************************************************)
\* The child of a place under one projection element, at the same age.
TaxonomyChild(mop, elem) ==
    [mop EXCEPT !.place =
        Place(mop.place.local, Append(mop.place.projection, elem))]

TaxonomyBlocked(k) ==
    CASE k.tag = "Reborrow" -> {k.blocked_place}
      [] k.tag = "BorrowExpansion" -> {Local(k.base)}
      [] k.tag = "OwnedExpansion" -> {Local(k.base)}
      [] k.tag = "Abstraction" ->
            UNION { { t.p : t \in { i \in k.edges[n].inputs : i.tag = "Place" } }
                        : n \in DOMAIN k.edges }
      [] k.tag = "RegionProjectionMember" ->
            IF k.direction = "PlaceIsRegionInput" THEN {k.place} ELSE {}

\* The blockers, as MaybeRemotePlace values so that the place of a member
\* can be named whatever it is.
TaxonomyBlockedBy(k) ==
    CASE k.tag = "Reborrow" -> {Local(k.assigned_place)}
      [] k.tag = "BorrowExpansion" ->
            { Local(TaxonomyChild(k.base, k.expansion[i]))
                : i \in DOMAIN k.expansion }
      [] k.tag = "OwnedExpansion" -> {Local(TaxonomyChild(k.base, "Deref"))}
      [] k.tag = "Abstraction" ->
            UNION { { Local(IF t.tag = "Place" THEN t.p ELSE t.rp.place)
                        : t \in k.edges[n].outputs } : n \in DOMAIN k.edges }
      [] k.tag = "RegionProjectionMember" ->
            IF k.direction = "PlaceIsRegionInput"
            THEN {Local(k.projection.place)}
            ELSE {k.place}

FollowsTaxonomy(k) ==
    /\ blocked_places(k) = TaxonomyBlocked(k)
    /\ ~blocked_by_places_aborts(k)
    /\ { Local(m) : m \in blocked_by_places(k) } = TaxonomyBlockedBy(k)
    /\ is_shared_borrow(k) <=> (k.tag = "Reborrow" /\ k.mutability = "Not")

\* C22: every edge of the graph follows the taxonomy table.
C22_EdgeTaxonomy == \A e \in st.graph : FollowsTaxonomy(e.kind)

(***************************************************************************)
(* C23: ensure_expansion_to_exactly(place, location) inserts one member    *)
(* edge (reborrow.blocked_place, rp, location, PlaceIsRegionInput) per     *)
(* region projection rp of `place` for the reborrows whose assigned place  *)
(* is Current and has `place` as a prefix, `place` itself included, and    *)
(* for no other; the deref expansion to `place` is there at the end.       *)
(***************************************************************************)
ReborrowsAssignedUnder(g, place) ==
    { e \in g :
        /\ e.kind.tag = "Reborrow"
        /\ is_current(e.kind.assigned_place)
        /\ is_prefix(place, e.kind.assigned_place.place) }

MembersFor(reborrows, place, loc) ==
    { RegionProjectionMember(e.kind.blocked_place, ra, loc,
                             "PlaceIsRegionInput")
        : e \in reborrows, ra \in region_projections(Current(place)) }

NewMembers ==
    { k \in Kinds(st.graph) \ Kinds(last.pre.graph) :
        k.tag = "RegionProjectionMember" }

\* C23: the member edges of ensure_expansion_to_exactly are those of the
\* reborrows assigned at or under `place`.
C23_MembersForAssignedUnder ==
    last.op = "ensure_expansion_to_exactly" =>
        LET expected ==
                MembersFor(ReborrowsAssignedUnder(last.pre.graph, last.place),
                           last.place, last.location)
        IN  /\ expected \subseteq Kinds(st.graph)
            /\ NewMembers \subseteq expected
            /\ \A q \in ProperPrefixes(last.place) :
                    is_ref(q) => contains_deref_expansion_from(st.graph, q)

\* A reborrow assigned strictly under `place` has got its member edges.
C23_Witness ==
    /\ last.op = "ensure_expansion_to_exactly"
    /\ \E e \in ReborrowsAssignedUnder(last.pre.graph, last.place) :
          /\ e.kind.assigned_place.place # last.place
          /\ MembersFor({e}, last.place, last.location) # {}
          /\ MembersFor({e}, last.place, last.location) \subseteq NewMembers

\* The claim as stated: a reborrow whose assigned place is equal to `place`
\* gets no member edge.
C23_StrictPrefixOnly ==
    last.op = "ensure_expansion_to_exactly" =>
        \A e \in ReborrowsAssignedUnder(last.pre.graph, last.place) :
            e.kind.assigned_place.place = last.place =>
                MembersFor({e}, last.place, last.location) \cap NewMembers = {}

(***************************************************************************)
(* C24: applying the plan of kill_reborrow(r) removes r and the edges that *)
(* transitively block r's assigned place, and leaves every other Reborrow  *)
(* edge in the graph.                                                      *)
(***************************************************************************)
C24_KillConfined ==
    last.op = "kill_reborrow" =>
        \A e \in last.pre.graph :
            (e.kind.tag = "Reborrow" /\ e \notin last.ug) => e \in st.graph

(***************************************************************************)
(* C25: apply_unblock_graph returns true exactly when a TerminateReborrow  *)
(* or a Collapse action removed an edge, that is, when an edge that is not *)
(* an abstraction edge left the graph; the edges a TerminateAbstraction    *)
(* removes are not reported.                                               *)
(***************************************************************************)
AppliesUnblockGraph == last.op \in {"unblock_place", "kill_reborrow"}

\* C25: the result of apply_unblock_graph reports the edges removed by
\* TerminateReborrow and Collapse actions.
C25_ReportsReborrowsAndCollapses ==
    AppliesUnblockGraph =>
        /\ last.ret <=>
              \E e \in last.pre.graph \ st.graph : e.kind.tag # "Abstraction"
        /\ last.ret => st.graph # last.pre.graph
        /\ st.graph \subseteq last.pre.graph

\* A plan that ended an abstraction and nothing else: the graph has changed
\* and the result is false.
C25_Witness ==
    /\ AppliesUnblockGraph
    /\ \E i \in DOMAIN last.actions :
          last.actions[i].tag = "TerminateAbstraction"
    /\ st.graph # last.pre.graph
    /\ ~last.ret

\* The claim as stated: the result is true exactly when the graph changed.
C25_ReportsAnyRemoval ==
    AppliesUnblockGraph => (last.ret <=> st.graph # last.pre.graph)

(***************************************************************************)
(* C26: after ensure_expansion_to_exactly(place, location) no edge of the  *)
(* graph blocks Current(place).                                            *)
(***************************************************************************)
C26_NothingBlocksPlace ==
    last.op = "ensure_expansion_to_exactly" =>
        edges_blocking(st.graph, Local(Current(last.place))) = {}

(***************************************************************************)
(* C27: blocked_by_places is defined on every edge of a reachable state,   *)
(* so minimize and trim_old_leaves, which evaluate it on every edge, never *)
(* abort.                                                                  *)
(***************************************************************************)
C27_BlockedByPlacesDefined ==
    /\ \A e \in st.graph : ~blocked_by_places_aborts(e.kind)
    /\ last.op \in {"minimize", "trim_old_leaves"} => ~last.aborted

(***************************************************************************)
(* C28: when the two states hold the same edge kinds (they differ at most  *)
(* in the path conditions of the edges), the bridge between them has no    *)
(* added reborrows, no expansions and no actions.                          *)
(***************************************************************************)
SameKinds == Kinds(last.from.graph) = Kinds(last.to.graph)

\* C28: states with the same edge kinds bridge to an empty bridge.
C28_BridgeIgnoresConditions ==
    (last.op = "bridge" /\ SameKinds) =>
        /\ last.bridge.added_reborrows = {}
        /\ last.bridge.expands = {}
        /\ last.actions = <<>>

(***************************************************************************)
(* C29: trim_old_leaves is a weaker minimize: the edges trim_old_leaves    *)
(* removes from a state are removed by minimize from that state as well,   *)
(* and trim_old_leaves on the result of minimize changes neither the graph *)
(* nor latest.                                                             *)
(***************************************************************************)
C29_TrimWeakerThanMinimize ==
    /\ (last.op = "trim_old_leaves" /\ ~last.aborted) =>
          minimize(last.pre, last.location).graph \subseteq st.graph
    /\ (last.op = "minimize" /\ ~last.aborted) =>
          /\ trim_old_leaves(st, CurrentLocation) = st
          /\ st.graph \subseteq
                trim_old_leaves(last.pre, last.location).graph

\* trim_old_leaves removed an edge, and minimize removes more.
C29_Witness ==
    /\ last.op = "trim_old_leaves"
    /\ ~last.aborted
    /\ st.graph # last.pre.graph
    /\ minimize(last.pre, last.location).graph # st.graph

(***************************************************************************)
(* C30: get_place_blocking(p) returns the assigned place of the reborrow   *)
(* when exactly one edge blocks p and it is a Reborrow; nothing when no    *)
(* edge or more than one edge blocks p; and it fails or returns nothing,   *)
(* never a place, when the single blocking edge is of another kind. The    *)
(* state is not modified.                                                  *)
(***************************************************************************)
BlockingQueried == edges_blocking(last.pre.graph, last.place)

\* C30: get_place_blocking answers for exactly one blocking edge only.
C30_BoundedToOneEdge ==
    last.op = "get_place_blocking" =>
        /\ st = last.pre
        /\ Cardinality(BlockingQueried) # 1 => last.ret.tag = "None"
        /\ \A e \in BlockingQueried :
              Cardinality(BlockingQueried) = 1 =>
                 IF e.kind.tag = "Reborrow"
                 THEN last.ret = [tag |-> "Some",
                                  place |-> e.kind.assigned_place]
                 ELSE last.ret.tag \in {"Fails", "None"}

\* Two edges block the place, one of them a reborrow, and nothing is
\* returned.
C30_Witness ==
    /\ last.op = "get_place_blocking"
    /\ Cardinality(BlockingQueried) > 1
    /\ \E e \in BlockingQueried : e.kind.tag = "Reborrow"
    /\ last.ret.tag = "None"

====
